---- MODULE Spec2Model ----
(***************************************************************************)
(* Identity service of the gateway: per-account fingerprint management     *)
(* (GetOrCreateFingerprint, ApplyFingerprint) and the metadata.user_id     *)
(* rewriter (RewriteUserID).  Go strings are TLA+ strings; a pointer that  *)
(* may be nil is a sequence of length 0 or 1.                              *)
(***************************************************************************)
EXTENDS Integers, Sequences, FiniteSets, TLC

\* ------------------------------------------------------------------------
\* Bounds of the model
\* ------------------------------------------------------------------------

\* number of GetOrCreateFingerprint calls started in one behaviour
MaxCalls == 3

Procs == {"h1", "h2"}

Accounts == {7}

\* ------------------------------------------------------------------------
\* Strings
\* ------------------------------------------------------------------------

Nil == <<>>

Some(x) == <<x>>

Char(s, i) == SubSeq(s, i, i)

\* c repeated n times
RECURSIVE Rep(_, _)
Rep(c, n) ==
    IF n = 0 THEN ""
    ELSE LET half == Rep(c, n \div 2)
         IN  IF n % 2 = 0 THEN half \o half ELSE half \o half \o c

Digits == {"0", "1", "2", "3", "4", "5", "6", "7", "8", "9"}

HexLower == Digits \cup {"a", "b", "c", "d", "e", "f"}

AllIn(s, set) == \A i \in 1..Len(s) : Char(s, i) \in set

DigitVal(c) ==
    CASE c = "0" -> 0 [] c = "1" -> 1 [] c = "2" -> 2 [] c = "3" -> 3
      [] c = "4" -> 4 [] c = "5" -> 5 [] c = "6" -> 6 [] c = "7" -> 7
      [] c = "8" -> 8 [] c = "9" -> 9

\* strconv.Atoi on a non-empty run of decimal digits (leading zeros allowed);
\* the version components of the model stay far below the int range
RECURSIVE AtoiAcc(_, _)
AtoiAcc(s, acc) ==
    IF s = "" THEN acc ELSE AtoiAcc(Tail(s), 10 * acc + DigitVal(Head(s)))

Atoi(s) == AtoiAcc(s, 0)

\* index of the last character of the longest run of digits that starts at
\* position i of s (i - 1 when s has no digit there): the greedy \d+
RECURSIVE DigitRunEnd(_, _)
DigitRunEnd(s, i) ==
    IF i <= Len(s) /\ Char(s, i) \in Digits THEN DigitRunEnd(s, i + 1) ELSE i - 1

\* ------------------------------------------------------------------------
\* User-Agent pattern and version comparison
\* ------------------------------------------------------------------------

UAPrefix == "claude-cli/"

\* claudeCodeUARegex.FindStringSubmatch: Nil, or the three captured groups of
\* ^claude-cli/(\d+)\.(\d+)\.(\d+)
claudeCodeUARegex(ua) ==
    IF Len(ua) < Len(UAPrefix) \/ SubSeq(ua, 1, Len(UAPrefix)) # UAPrefix
    THEN Nil
    ELSE LET s1 == Len(UAPrefix) + 1
             e1 == DigitRunEnd(ua, s1)
         IN  IF e1 < s1 \/ e1 + 1 > Len(ua) \/ Char(ua, e1 + 1) # "."
             THEN Nil
             ELSE LET s2 == e1 + 2
                      e2 == DigitRunEnd(ua, s2)
                  IN  IF e2 < s2 \/ e2 + 1 > Len(ua) \/ Char(ua, e2 + 1) # "."
                      THEN Nil
                      ELSE LET s3 == e2 + 2
                               e3 == DigitRunEnd(ua, s3)
                           IN  IF e3 < s3
                               THEN Nil
                               ELSE Some(<<SubSeq(ua, s1, e1),
                                           SubSeq(ua, s2, e2),
                                           SubSeq(ua, s3, e3)>>)

isClaudeCodeUserAgent(ua) == claudeCodeUARegex(ua) # Nil

isNewerAnyOrder(newUA, oldUA) ==
    LET newMatches == claudeCodeUARegex(newUA)
        oldMatches == claudeCodeUARegex(oldUA)
    IN  IF newMatches = Nil \/ oldMatches = Nil
        THEN FALSE
        ELSE \/ Atoi(newMatches[1][1]) > Atoi(oldMatches[1][1])
             \/ Atoi(newMatches[1][2]) > Atoi(oldMatches[1][2])
             \/ Atoi(newMatches[1][3]) > Atoi(oldMatches[1][3])

isNewerClaudeCodeVersion(newUA, oldUA) ==
    LET newMatches == claudeCodeUARegex(newUA)
        oldMatches == claudeCodeUARegex(oldUA)
    IN  IF newMatches = Nil \/ oldMatches = Nil
        THEN FALSE
        ELSE LET newMajor == Atoi(newMatches[1][1])
                 newMinor == Atoi(newMatches[1][2])
                 newPatch == Atoi(newMatches[1][3])
                 oldMajor == Atoi(oldMatches[1][1])
                 oldMinor == Atoi(oldMatches[1][2])
                 oldPatch == Atoi(oldMatches[1][3])
             IN  IF newMajor # oldMajor THEN newMajor > oldMajor
                 ELSE IF newMinor # oldMinor THEN newMinor > oldMinor
                 ELSE newPatch > oldPatch

\* ------------------------------------------------------------------------
\* Fingerprint
\* ------------------------------------------------------------------------

defaultFingerprint ==
    [ClientID                |-> "",
     UserAgent               |-> "claude-cli/2.0.62 (external, cli)",
     StainlessLang           |-> "js",
     StainlessPackageVersion |-> "0.52.0",
     StainlessOS             |-> "Linux",
     StainlessArch           |-> "x64",
     StainlessRuntime        |-> "node",
     StainlessRuntimeVersion |-> "v22.14.0"]

\* the values generateClientID can return: hex of 32 random bytes (or of the
\* SHA-256 of the clock on the fallback path), 64 lowercase hex characters
generateClientID == {Rep("a", 64), Rep("b", 64)}

\* User-Agent headers the requests of the model carry
ClientUAs ==
    {"claude-cli/1.2.0",
     "claude-cli/1.10.0 (external, cli)",
     "claude-cli/1.02.0",
     "claude-cli/0.9.9",
     "curl/8.5.0",
     "claude-cli/2.0"}

\* a record written by an earlier deployment, found in the cache at start-up;
\* its agent is not in the claude-cli format
legacyFingerprint ==
    [defaultFingerprint EXCEPT !.ClientID = Rep("c", 64),
                               !.UserAgent = "Mozilla/5.0"]

\* a second corrupted record: no agent at all, and client metadata of its own
strayFingerprint ==
    [ClientID |-> Rep("e", 64), UserAgent |-> "",
     StainlessLang |-> "python", StainlessPackageVersion |-> "0.39.0",
     StainlessOS |-> "MacOS", StainlessArch |-> "arm64",
     StainlessRuntime |-> "CPython", StainlessRuntimeVersion |-> "3.12.1"]

\* ------------------------------------------------------------------------
\* JSON bodies
\* ------------------------------------------------------------------------
\* A body is [kind, ws, members]: kind "empty" (no bytes), "invalid" (not
\* JSON), "null", "array" or "object"; members are the object's members in
\* textual order; ws tells whether the text has insignificant white space.
\* A member is [k, t, s, m]: key, type ("str", "num", "bool", "null", "arr",
\* "obj"), the text of a scalar, and the members [k, t, s] of a nested object.

Body(kind, ws, members) == [kind |-> kind, ws |-> ws, members |-> members]

Member(k, t, s, m) == [k |-> k, t |-> t, s |-> s, m |-> m]

Inner(k, t, s) == [k |-> k, t |-> t, s |-> s]

\* the number literals of the model
BigInt == "9007199254740993"

\* a JSON number decoded into an `any` is a float64; json.Marshal prints the
\* float64 in its shortest form: the text of the nearest float64
Float64Text(lit) ==
    CASE lit = "1.0" -> "1"
      [] lit = BigInt -> "9007199254740992"
      [] OTHER -> lit

\* the real number a literal denotes, in canonical text
NumberValue(lit) ==
    CASE lit = "1.0" -> "1"
      [] OTHER -> lit

decodeScalar(t, s) == IF t = "num" THEN Float64Text(s) ELSE s

\* index of the last member with key k (0 when there is none)
LastIndex(members, k) ==
    LET idx == {i \in 1..Len(members) : members[i].k = k}
    IN  IF idx = {} THEN 0 ELSE CHOOSE i \in idx : \A j \in idx : j <= i

\* decoding an object into map[string]any: a later duplicate key replaces an
\* earlier one; the map is the set of its entries
decodeInner(members) ==
    {Inner(members[i].k, members[i].t, decodeScalar(members[i].t, members[i].s)) :
        i \in {j \in 1..Len(members) : LastIndex(members, members[j].k) = j}}

decodeObject(members) ==
    {Member(members[i].k, members[i].t,
            decodeScalar(members[i].t, members[i].s),
            decodeInner(members[i].m)) :
        i \in {j \in 1..Len(members) : LastIndex(members, members[j].k) = j}}

\* json.Unmarshal(body, &reqMap) with reqMap a map[string]any: null leaves the
\* map nil, any other non-object is an error
Unmarshal(body) ==
    CASE body.kind = "object" -> [err |-> FALSE, map |-> decodeObject(body.members)]
      [] body.kind = "null" -> [err |-> FALSE, map |-> {}]
      [] OTHER -> [err |-> TRUE, map |-> {}]

\* bytes in increasing order, for the characters of the keys of the model
ByteOrder == "-0123456789:_abcdefghijklmnopqrstuvwxyz"

Rank(c) == CHOOSE i \in 1..Len(ByteOrder) : Char(ByteOrder, i) = c

RECURSIVE StrLess(_, _)
StrLess(a, b) ==
    IF b = "" THEN FALSE
    ELSE IF a = "" THEN TRUE
    ELSE IF Head(a) = Head(b) THEN StrLess(Tail(a), Tail(b))
    ELSE Rank(Head(a)) < Rank(Head(b))

\* the entries of a map in the order json.Marshal writes them: sorted by key
RECURSIVE SortByKey(_)
SortByKey(entries) ==
    IF entries = {} THEN <<>>
    ELSE LET first == CHOOSE e \in entries :
                          \A f \in entries : f.k = e.k \/ StrLess(e.k, f.k)
         IN  <<first>> \o SortByKey(entries \ {first})

\* json.Marshal(reqMap): compact text, keys sorted at every level
Marshal(map) ==
    LET top == SortByKey(map)
    IN  Body("object", FALSE,
             [i \in 1..Len(top) |->
                 Member(top[i].k, top[i].t, top[i].s, SortByKey(top[i].m))])

\* ------------------------------------------------------------------------
\* Session UUID derivation
\* ------------------------------------------------------------------------

HexDigits == "0123456789abcdef"

HexByte(b) == Char(HexDigits, (b \div 16) + 1) \o Char(HexDigits, (b % 16) + 1)

\* %x of bytes[from..to]: two lowercase hex digits per byte
RECURSIVE HexOf(_, _, _)
HexOf(bytes, from, to) ==
    IF from > to THEN "" ELSE HexByte(bytes[from]) \o HexOf(bytes, from + 1, to)

RECURSIVE UItoa(_)
UItoa(n) ==
    IF n < 10 THEN Char(HexDigits, n + 1)
    ELSE UItoa(n \div 10) \o Char(HexDigits, (n % 10) + 1)

\* %d of an int64
Itoa(n) == IF n < 0 THEN "-" \o UItoa(0 - n) ELSE UItoa(n)

RECURSIVE Mix(_, _, _, _)
Mix(s, i, lo, hi) ==
    IF lo > hi THEN i
    ELSE IF lo = hi THEN (Rank(Char(s, lo)) * (lo + i)) % 256
    ELSE LET mid == (lo + hi) \div 2
         IN  (Mix(s, i, lo, mid) + 31 * Mix(s, i, mid + 1, hi) + i) % 256

\* the first 16 bytes of sha256.Sum256(seed): a fixed function of the seed
\* (the digest itself is not computed; any fixed function serves)
Sum256Prefix(seed) == [i \in 1..16 |-> Mix(seed, 7 * i, 1, Len(seed))]

uuidFromBytesNoVariant(bytes) ==
    LET b == [i \in 1..16 |-> IF i = 7 THEN (bytes[i] % 16) + 64 ELSE bytes[i]]
    IN  HexOf(b, 1, 4) \o "-" \o HexOf(b, 5, 6) \o "-" \o HexOf(b, 7, 8)
          \o "-" \o HexOf(b, 9, 10) \o "-" \o HexOf(b, 11, 16)

\* lines 226-230: version nibble, variant bits, %x-%x-%x-%x-%x
uuidFromBytes(bytes) ==
    LET b == [i \in 1..16 |->
                 IF i = 7 THEN (bytes[i] % 16) + 64
                 ELSE IF i = 9 THEN (bytes[i] % 64) + 128
                 ELSE bytes[i]]
    IN  HexOf(b, 1, 4) \o "-" \o HexOf(b, 5, 6) \o "-" \o HexOf(b, 7, 8)
          \o "-" \o HexOf(b, 9, 10) \o "-" \o HexOf(b, 11, 16)

generateUUIDFromSeed(seed) == uuidFromBytes(Sum256Prefix(seed))

\* ------------------------------------------------------------------------
\* RewriteUserID
\* ------------------------------------------------------------------------

ClientIDLen == 64

SessionLen == 36

UserIDHead == "user_"

UserIDMid == "_account__session_"

userIDRegexUnanchored(userID) ==
    LET total == Len(UserIDHead) + ClientIDLen + Len(UserIDMid) + SessionLen
        idEnd == Len(UserIDHead) + ClientIDLen
        midEnd == idEnd + Len(UserIDMid)
    IN  IF /\ Len(userID) >= total
           /\ SubSeq(userID, 1, Len(UserIDHead)) = UserIDHead
           /\ AllIn(SubSeq(userID, Len(UserIDHead) + 1, idEnd), HexLower)
           /\ SubSeq(userID, idEnd + 1, midEnd) = UserIDMid
           /\ AllIn(SubSeq(userID, midEnd + 1, total), HexLower \cup {"-"})
        THEN Some(SubSeq(userID, midEnd + 1, total))
        ELSE Nil

\* userIDRegex.FindStringSubmatch: Nil, or the captured session part of
\* ^user_[a-f0-9]{64}_account__session_([a-f0-9-]{36})$
userIDRegex(userID) ==
    LET total == Len(UserIDHead) + ClientIDLen + Len(UserIDMid) + SessionLen
        idEnd == Len(UserIDHead) + ClientIDLen
        midEnd == idEnd + Len(UserIDMid)
    IN  IF /\ Len(userID) = total
           /\ SubSeq(userID, 1, Len(UserIDHead)) = UserIDHead
           /\ AllIn(SubSeq(userID, Len(UserIDHead) + 1, idEnd), HexLower)
           /\ SubSeq(userID, idEnd + 1, midEnd) = UserIDMid
           /\ AllIn(SubSeq(userID, midEnd + 1, total), HexLower \cup {"-"})
        THEN Some(SubSeq(userID, midEnd + 1, total))
        ELSE Nil

newUserIDEmptyAccount(cachedClientID, accountUUID, newSessionHash) ==
    "user_" \o cachedClientID \o "_account__session_" \o newSessionHash

\* fmt.Sprintf("user_%s_account_%s_session_%s", ...)
newUserID(cachedClientID, accountUUID, newSessionHash) ==
    "user_" \o cachedClientID \o "_account_" \o accountUUID
        \o "_session_" \o newSessionHash

\* the entry of a map under key k, as a set (empty when absent)
Lookup(map, k) == {e \in map : e.k = k}

RewriteUserID(body, accountID, accountUUID, cachedClientID) ==
    IF body.kind = "empty" \/ accountUUID = "" \/ cachedClientID = ""
    THEN [body |-> body, err |-> "nil"]
    ELSE
    LET u == Unmarshal(body)
    IN  IF u.err THEN [body |-> body, err |-> "nil"]
        ELSE
        LET reqMap == u.map
            md == {e \in Lookup(reqMap, "metadata") : e.t = "obj"}
        IN  IF md = {} THEN [body |-> body, err |-> "nil"]
            ELSE
            LET metadata == (CHOOSE e \in md : TRUE).m
                uid == {e \in Lookup(metadata, "user_id") : e.t = "str"}
            IN  IF uid = {} \/ (CHOOSE e \in uid : TRUE).s = ""
                THEN [body |-> body, err |-> "nil"]
                ELSE
                LET userID == (CHOOSE e \in uid : TRUE).s
                    matches == userIDRegex(userID)
                IN  IF matches = Nil THEN [body |-> body, err |-> "nil"]
                    ELSE
                    LET sessionTail == matches[1]
                        seed == Itoa(accountID) \o "::" \o sessionTail
                        newSessionHash == generateUUIDFromSeed(seed)
                        new == newUserID(cachedClientID, accountUUID, newSessionHash)
                        metadata2 == (metadata \ Lookup(metadata, "user_id"))
                                        \cup {Inner("user_id", "str", new)}
                        reqMap2 == (reqMap \ Lookup(reqMap, "metadata"))
                                        \cup {Member("metadata", "obj", "", metadata2)}
                    IN  [body |-> Marshal(reqMap2), err |-> "nil"]

\* ------------------------------------------------------------------------
\* ApplyFingerprint
\* ------------------------------------------------------------------------

LowerCase == "abcdefghijklmnopqrstuvwxyz"

UpperCase == "ABCDEFGHIJKLMNOPQRSTUVWXYZ"

IndexIn(alphabet, c) ==
    LET idx == {i \in 1..Len(alphabet) : Char(alphabet, i) = c}
    IN  IF idx = {} THEN 0 ELSE CHOOSE i \in idx : TRUE

ToUpper(c) == IF IndexIn(LowerCase, c) = 0 THEN c
              ELSE Char(UpperCase, IndexIn(LowerCase, c))

ToLower(c) == IF IndexIn(UpperCase, c) = 0 THEN c
              ELSE Char(LowerCase, IndexIn(UpperCase, c))

\* textproto.CanonicalMIMEHeaderKey, which http.Header.Set applies to its key:
\* the first letter and every letter after a hyphen in upper case, the rest
\* in lower case
RECURSIVE Canonical(_, _, _)
Canonical(key, lo, hi) ==
    IF lo > hi THEN ""
    ELSE IF lo = hi
    THEN IF lo = 1 \/ Char(key, lo - 1) = "-"
         THEN ToUpper(Char(key, lo)) ELSE ToLower(Char(key, lo))
    ELSE LET mid == (lo + hi) \div 2
         IN  Canonical(key, lo, mid) \o Canonical(key, mid + 1, hi)

CanonicalMIMEHeaderKey(key) == Canonical(key, 1, Len(key))

\* the header keys of the model, as http.Header stores them; a header is a
\* function from these keys to the list of its values (<<>>: absent)
HeaderKeys ==
    {"User-Agent", "X-Stainless-Lang", "X-Stainless-Package-Version",
     "X-Stainless-Os", "X-Stainless-Arch", "X-Stainless-Runtime",
     "X-Stainless-Runtime-Version", "X-Stainless-Retry-Count", "X-App",
     "Anthropic-Dangerous-Direct-Browser-Access", "Authorization",
     "X-Stainless-Timeout"}

\* http.Header.Set
HeaderSet(header, key, value) ==
    [header EXCEPT ![CanonicalMIMEHeaderKey(key)] = <<value>>]

SetIfNonEmpty(header, key, value) ==
    IF value # "" THEN HeaderSet(header, key, value) ELSE header

ApplyFingerprintAlways(header, fp) ==
    IF fp = Nil THEN header
    ELSE
    LET f  == fp[1]
        h1 == HeaderSet(header, "user-agent", f.UserAgent)
        h2 == HeaderSet(h1, "X-Stainless-Lang", f.StainlessLang)
        h3 == HeaderSet(h2, "X-Stainless-Package-Version", f.StainlessPackageVersion)
        h4 == HeaderSet(h3, "X-Stainless-OS", f.StainlessOS)
        h5 == HeaderSet(h4, "X-Stainless-Arch", f.StainlessArch)
        h6 == HeaderSet(h5, "X-Stainless-Runtime", f.StainlessRuntime)
        h7 == HeaderSet(h6, "X-Stainless-Runtime-Version", f.StainlessRuntimeVersion)
        h8 == HeaderSet(h7, "X-Stainless-Retry-Count", "0")
        h9 == HeaderSet(h8, "X-App", "cli")
    IN  HeaderSet(h9, "Anthropic-Dangerous-Direct-Browser-Access", "true")

\* the header of req after ApplyFingerprint(req, fp)
ApplyFingerprint(header, fp) ==
    IF fp = Nil THEN header
    ELSE
    LET f  == fp[1]
        h1 == SetIfNonEmpty(header, "user-agent", f.UserAgent)
        h2 == SetIfNonEmpty(h1, "X-Stainless-Lang", f.StainlessLang)
        h3 == SetIfNonEmpty(h2, "X-Stainless-Package-Version", f.StainlessPackageVersion)
        h4 == SetIfNonEmpty(h3, "X-Stainless-OS", f.StainlessOS)
        h5 == SetIfNonEmpty(h4, "X-Stainless-Arch", f.StainlessArch)
        h6 == SetIfNonEmpty(h5, "X-Stainless-Runtime", f.StainlessRuntime)
        h7 == SetIfNonEmpty(h6, "X-Stainless-Runtime-Version", f.StainlessRuntimeVersion)
        h8 == HeaderSet(h7, "X-Stainless-Retry-Count", "0")
        h9 == HeaderSet(h8, "X-App", "cli")
    IN  HeaderSet(h9, "Anthropic-Dangerous-Direct-Browser-Access", "true")

\* ------------------------------------------------------------------------
\* Inputs of the model
\* ------------------------------------------------------------------------

SessionTail == "11111111-2222-4333-8444-555555555555"

UserID(clientID, tail) == "user_" \o clientID \o "_account__session_" \o tail

GoodUserID == UserID(Rep("d", 64), SessionTail)

Meta(inner) == Member("metadata", "obj", "", inner)

Str(k, v) == Member(k, "str", v, <<>>)

Num(k, v) == Member(k, "num", v, <<>>)

\* metadata.user_id values that the pattern must reject
BadUserIDs ==
    {UserID(Rep("D", 64), SessionTail),
     UserID(Rep("d", 63), SessionTail),
     UserID(Rep("d", 64), SubSeq(SessionTail, 1, 35) \o "g"),
     GoodUserID \o "0",
     "x" \o GoodUserID,
     "user_" \o Rep("d", 64) \o "_account_acc_session_" \o SessionTail}

ObjectBody(ws, members) == Body("object", ws, members)

RewriteBodies ==
    {Body("empty", FALSE, <<>>), Body("invalid", FALSE, <<>>),
     Body("null", FALSE, <<>>), Body("array", TRUE, <<>>),
     ObjectBody(FALSE, <<Str("model", "m")>>),
     ObjectBody(TRUE, <<Str("metadata", GoodUserID)>>),
     ObjectBody(FALSE, <<Meta(<<Inner("other", "str", GoodUserID)>>)>>),
     ObjectBody(FALSE, <<Meta(<<Inner("user_id", "num", "1.0")>>)>>),
     ObjectBody(FALSE, <<Meta(<<Inner("user_id", "str", "")>>)>>),
     ObjectBody(FALSE, <<Meta(<<Inner("user_id", "str", GoodUserID)>>),
                         Member("metadata", "null", "", <<>>)>>),
     ObjectBody(FALSE, <<Meta(<<Inner("user_id", "str", GoodUserID)>>)>>),
     ObjectBody(TRUE, <<Str("model", "m"),
                        Meta(<<Inner("user_id", "str", GoodUserID),
                               Inner("tag", "str", "t")>>),
                        Num("max_tokens", "4096")>>),
     ObjectBody(FALSE, <<Meta(<<Inner("user_id", "str",
                                      UserID(Rep("0", 64), Rep("-", 36)))>>),
                         Num("temperature", "1.0")>>),
     ObjectBody(FALSE, <<Meta(<<Inner("user_id", "str", GoodUserID)>>),
                         Num("seed", BigInt)>>)}
      \cup {ObjectBody(FALSE, <<Str("model", "m"),
                                Meta(<<Inner("user_id", "str", u)>>)>>) :
               u \in BadUserIDs}

RewriteAccountIDs == {7, -12}

RewriteAccountUUIDs == {"", "0b5c7f0e-acc", "account_"}

RewriteClientIDs == {"", Rep("a", 64), "c1"}

NoOutput == [body |-> Body("empty", FALSE, <<>>), err |-> "nil"]

NoRewrite ==
    [stage |-> "off", body |-> Body("empty", FALSE, <<>>), accountID |-> 0,
     accountUUID |-> "", cachedClientID |-> "", out1 |-> NoOutput,
     out2 |-> NoOutput]

EmptyHeader == [k \in HeaderKeys |-> <<>>]

ApplyHeaders ==
    {EmptyHeader,
     [k \in HeaderKeys |-> <<"old">>],
     [k \in HeaderKeys |-> <<"old", "older">>],
     [k \in HeaderKeys |-> IF k \in {"User-Agent", "X-Stainless-Os", "X-App",
                                     "Authorization"}
                           THEN <<"old">> ELSE <<>>]}

ApplyFingerprints ==
    {Nil} \cup
    {Some([ClientID                |-> Rep("a", 64),
           UserAgent               |-> ua,
           StainlessLang           |-> lang,
           StainlessPackageVersion |-> pv,
           StainlessOS             |-> os,
           StainlessArch           |-> arch,
           StainlessRuntime        |-> rt,
           StainlessRuntimeVersion |-> rv]) :
        ua \in {"", defaultFingerprint.UserAgent},
        lang \in {"", "js"}, pv \in {"", "0.52.0"}, os \in {"", "MacOS"},
        arch \in {"", "arm64"}, rt \in {"", "node"}, rv \in {"", "v22.14.0"}}

NoApply == [stage |-> "off", header |-> EmptyHeader, fp |-> Nil, out |-> EmptyHeader]

\* the account's UUID and the body each request of the model carries
AccountUUID == [a \in Accounts |-> "0b5c7f0e-acc"]

RequestBody ==
    ObjectBody(TRUE, <<Str("model", "m"),
                       Meta(<<Inner("user_id", "str", GoodUserID)>>)>>)

\* metadata.user_id of a body ("" when it has none)
UserIDOf(body) ==
    LET md == {e \in Lookup(Unmarshal(body).map, "metadata") : e.t = "obj"}
    IN  IF md = {} THEN ""
        ELSE LET uid == Lookup((CHOOSE e \in md : TRUE).m, "user_id")
             IN  IF uid = {} THEN "" ELSE (CHOOSE e \in uid : TRUE).s

\* metadata.user_id of the forwarded body, by account and clientID
requestUserIDs ==
    {<<a, id, UserIDOf(RewriteUserID(RequestBody, a, AccountUUID[a], id).body)>> :
        a \in Accounts,
        id \in generateClientID \cup {legacyFingerprint.ClientID,
                                      strayFingerprint.ClientID}}

requestUserID(a, id) ==
    (CHOOSE t \in requestUserIDs : t[1] = a /\ t[2] = id)[3]

NoFatal == [stage |-> "off", body |-> "", label |-> ""]

NoSim == [stage |-> "off", s1 |-> "", s2 |-> "", fwd |-> <<0, 1>>, bwd |-> <<0, 1>>]

NoClassify ==
    [stage |-> "off", system |-> [t |-> "nil", s |-> "", items |-> <<>>],
     threshold |-> <<0, 1>>, result |-> FALSE]

NoUUID == [stage |-> "off", bytes |-> <<>>, out |-> "", userID |-> ""]

\* the composable as useTableLoader builds it: empty refs, no controller, no
\* load started; loads[i] is the i-th call of load with its own controller
NoTable ==
    [items |-> <<>>, loading |-> FALSE, refreshing |-> FALSE,
     page |-> 1, page_size |-> 20, total |-> 0, pages |-> 0,
     abortController |-> 0, loads |-> <<>>, unmounted |-> FALSE]

\* no call of DownloadFile: nothing at dest (Nil; Some(n) is a file of n bytes)
NoDownload ==
    [pc |-> "off", maxSize |-> 0, ContentLength |-> -1, body |-> 0,
     dest |-> Nil, created |-> FALSE, N |-> 0, written |-> 0, ret |-> "none"]

\* ------------------------------------------------------------------------
\* State
\* ------------------------------------------------------------------------

VARIABLES
    cache,      \* the fingerprint store: account -> Nil or Some(fingerprint)
    call,       \* per request handler: the GetOrCreateFingerprint call it runs
    callsLeft,  \* calls that may still be started
    created,    \* history: account -> Some(clientID of its first record)
    retIDs,     \* history: account -> clientIDs returned so far
    gen,        \* history: account -> number of generateClientID invocations
    userIDs,    \* history: account -> rewritten user_ids sent upstream
    rw,         \* RewriteUserID applied to drawn arguments, then to its output
    ap,         \* ApplyFingerprint applied to a drawn header and fingerprint
    ft,         \* checkFatal400Error applied to a drawn response body
    sim,        \* stringSimilarity applied to a drawn pair, in both orders
    cl,         \* IsRealClaudeCodeRequest applied to a drawn system field
    uu,         \* the UUID formatting applied to a drawn hash prefix
    tl,         \* one mounted useTableLoader: its refs, controller and loads
    dl          \* one call of DownloadFile: its position, the file at dest

vars == <<cache, call, callsLeft, created, retIDs, gen, userIDs, rw, ap,
          ft, sim, cl, uu, tl, dl>>

\* the functions and the composable that a run does not exercise stay as built
OthersIdle ==
    /\ ft = NoFatal
    /\ sim = NoSim
    /\ cl = NoClassify
    /\ uu = NoUUID
    /\ tl = NoTable
    /\ dl = NoDownload

IdleCall ==
    [pc |-> "idle", acct |-> 0, ua |-> "", got |-> "", seen |-> Nil,
     fp |-> Nil, wrote |-> "none", result |-> Nil]

\* ------------------------------------------------------------------------
\* GetOrCreateFingerprint
\* ------------------------------------------------------------------------

\* what IdentityCache.GetFingerprint can answer for a stored value
GetFingerprint(stored) ==
    {[fp |-> stored, err |-> FALSE], [fp |-> Nil, err |-> TRUE]}

readFoundOnErr(r) == r.err /\ r.fp # Nil

\* err == nil && cached != nil
readFound(r) == ~r.err /\ r.fp # Nil

onCachedKeepAgent(cached, clientUA) ==
    IF isClaudeCodeUserAgent(clientUA)
         /\ isNewerClaudeCodeVersion(clientUA, cached.UserAgent)
    THEN [fp |-> [cached EXCEPT !.UserAgent = clientUA], set |-> TRUE]
    ELSE [fp |-> cached, set |-> FALSE]

\* the branch taken with a cached record: the record to return and whether
\* SetFingerprint is called with it
onCached(cached, clientUA) ==
    IF isClaudeCodeUserAgent(clientUA)
    THEN IF isNewerClaudeCodeVersion(clientUA, cached.UserAgent)
         THEN [fp |-> [cached EXCEPT !.UserAgent = clientUA], set |-> TRUE]
         ELSE [fp |-> cached, set |-> FALSE]
    ELSE IF ~isClaudeCodeUserAgent(cached.UserAgent)
         THEN [fp |-> [cached EXCEPT !.UserAgent = defaultFingerprint.UserAgent],
               set |-> TRUE]
         ELSE [fp |-> cached, set |-> FALSE]

\* the record built when the cache gave none
newFingerprint(clientUA, id) ==
    [defaultFingerprint EXCEPT
        !.UserAgent = IF isClaudeCodeUserAgent(clientUA)
                      THEN clientUA ELSE defaultFingerprint.UserAgent,
        !.ClientID = id]

afterSetSurfacing(fp, setErr) ==
    IF setErr THEN [fp |-> Nil, err |-> "set failed"]
    ELSE [fp |-> Some(fp), err |-> "nil"]

\* the return after SetFingerprint: its error is logged or dropped
afterSet(fp, setErr) == [fp |-> Some(fp), err |-> "nil"]

\* return cached, nil
returnCached(fp) == [fp |-> Some(fp), err |-> "nil"]

Returned(p, res) ==
    IF res.fp = Nil THEN retIDs' = retIDs
    ELSE retIDs' = [retIDs EXCEPT ![call[p].acct] = @ \cup {res.fp[1].ClientID}]

Begin(p, a, clientUA) ==
    /\ call[p].pc = "idle"
    /\ callsLeft > 0
    /\ callsLeft' = callsLeft - 1
    /\ call' = [call EXCEPT ![p] = [IdleCall EXCEPT !.pc = "get", !.acct = a,
                                                     !.ua = clientUA]]
    /\ UNCHANGED <<rw, ap, ft, sim, cl, uu, tl, dl, userIDs, cache, created, retIDs, gen>>

\* lines 74-113 after GetFingerprint answered r: the branch with the cached
\* record up to its return or its SetFingerprint, or the creation of a new
\* record up to its SetFingerprint
Read(p, r, answer) ==
    IF readFound(r)
    THEN LET d == onCached(r.fp[1], call[p].ua)
         IN  /\ IF d.set
                THEN /\ call' = [call EXCEPT ![p].pc = "set", ![p].got = answer,
                                             ![p].seen = r.fp, ![p].fp = Some(d.fp)]
                     /\ UNCHANGED retIDs
                ELSE /\ call' = [call EXCEPT ![p].pc = "returned",
                                             ![p].got = answer,
                                             ![p].seen = r.fp, ![p].fp = Some(d.fp),
                                             ![p].result = Some(returnCached(d.fp))]
                     /\ Returned(p, returnCached(d.fp))
             /\ UNCHANGED <<rw, ap, ft, sim, cl, uu, tl, dl, userIDs, cache, callsLeft, created, gen>>
    ELSE \E id \in generateClientID :
            /\ call' = [call EXCEPT ![p].pc = "set", ![p].got = answer,
                                    ![p].fp = Some(newFingerprint(call[p].ua, id))]
            /\ gen' = [gen EXCEPT ![call[p].acct] = @ + 1]
            /\ created' = [created EXCEPT ![call[p].acct] =
                               IF @ = Nil THEN Some(id) ELSE @]
            /\ UNCHANGED <<rw, ap, ft, sim, cl, uu, tl, dl, userIDs, cache, callsLeft, retIDs>>

\* GetFingerprint returns the stored record
ReadHit(p) ==
    /\ call[p].pc = "get"
    /\ cache[call[p].acct] # Nil
    /\ \E r \in GetFingerprint(cache[call[p].acct]) :
          ~r.err /\ Read(p, r, "hit")

\* GetFingerprint finds nothing stored
ReadMiss(p) ==
    /\ call[p].pc = "get"
    /\ cache[call[p].acct] = Nil
    /\ \E r \in GetFingerprint(cache[call[p].acct]) :
          ~r.err /\ Read(p, r, "miss")

\* GetFingerprint fails
ReadErr(p) ==
    /\ call[p].pc = "get"
    /\ \E r \in GetFingerprint(cache[call[p].acct]) :
          r.err /\ Read(p, r, "error")

\* SetFingerprint stores the record
WriteOK(p) ==
    /\ call[p].pc = "set"
    /\ cache' = [cache EXCEPT ![call[p].acct] = call[p].fp]
    /\ LET res == afterSet(call[p].fp[1], FALSE)
       IN  /\ call' = [call EXCEPT ![p].pc = "returned", ![p].wrote = "ok",
                                   ![p].result = Some(res)]
           /\ Returned(p, res)
    /\ UNCHANGED <<rw, ap, ft, sim, cl, uu, tl, dl, userIDs, callsLeft, created, gen>>

\* SetFingerprint fails and stores nothing
WriteFail(p) ==
    /\ call[p].pc = "set"
    /\ LET res == afterSet(call[p].fp[1], TRUE)
       IN  /\ call' = [call EXCEPT ![p].pc = "returned", ![p].wrote = "fail",
                                   ![p].result = Some(res)]
           /\ Returned(p, res)
    /\ UNCHANGED <<rw, ap, ft, sim, cl, uu, tl, dl, userIDs, cache, callsLeft, created, gen>>

\* the request goes on: its body is rewritten with the clientID of the
\* fingerprint the call returned, and the handler is free again
ForwardRequest(p) ==
    /\ call[p].pc = "returned"
    /\ call[p].result[1].fp # Nil
    /\ userIDs' = [userIDs EXCEPT ![call[p].acct] =
                      @ \cup {requestUserID(call[p].acct,
                                            call[p].result[1].fp[1].ClientID)}]
    /\ call' = [call EXCEPT ![p] = IdleCall]
    /\ UNCHANGED <<rw, ap, ft, sim, cl, uu, tl, dl, cache, callsLeft, created, retIDs, gen>>

\* the store at start-up: empty, or holding a record of an earlier deployment
Init ==
    /\ cache \in [Accounts -> {Nil, Some(legacyFingerprint)}]
    /\ call = [p \in Procs |-> IdleCall]
    /\ callsLeft = MaxCalls
    /\ created = [a \in Accounts |->
                     IF cache[a] = Nil THEN Nil ELSE Some(cache[a][1].ClientID)]
    /\ retIDs = [a \in Accounts |-> {}]
    /\ gen = [a \in Accounts |-> 0]
    /\ userIDs = [a \in Accounts |-> {}]
    /\ rw = NoRewrite
    /\ ap = NoApply
    /\ OthersIdle

Next ==
    \/ \E p \in Procs, a \in Accounts, ua \in ClientUAs : Begin(p, a, ua)
    \/ \E p \in Procs : ReadHit(p)
    \/ \E p \in Procs : ReadMiss(p)
    \/ \E p \in Procs : ReadErr(p)
    \/ \E p \in Procs : WriteOK(p)
    \/ \E p \in Procs : WriteFail(p)
    \/ \E p \in Procs : ForwardRequest(p)

Spec == Init /\ [][Next]_vars

\* ------------------------------------------------------------------------
\* Sequential runs without cache failures
\* ------------------------------------------------------------------------

NoCallInFlight == \A q \in Procs : call[q].pc = "idle"

BeginAlone(p, a, clientUA) == NoCallInFlight /\ Begin(p, a, clientUA)

NextSeq ==
    \/ \E p \in Procs, a \in Accounts, ua \in ClientUAs : BeginAlone(p, a, ua)
    \/ \E p \in Procs : ReadHit(p)
    \/ \E p \in Procs : ReadMiss(p)
    \/ \E p \in Procs : WriteOK(p)
    \/ \E p \in Procs : ForwardRequest(p)

SpecSeq == Init /\ [][NextSeq]_vars

\* ------------------------------------------------------------------------
\* Concurrent runs without cache failures
\* ------------------------------------------------------------------------

NextRace ==
    \/ \E p \in Procs, a \in Accounts, ua \in ClientUAs : Begin(p, a, ua)
    \/ \E p \in Procs : ReadHit(p)
    \/ \E p \in Procs : ReadMiss(p)
    \/ \E p \in Procs : WriteOK(p)
    \/ \E p \in Procs : ForwardRequest(p)

SpecRace == Init /\ [][NextRace]_vars

\* ------------------------------------------------------------------------
\* RewriteUserID on drawn arguments
\* ------------------------------------------------------------------------

MainIdle ==
    /\ cache = [a \in Accounts |-> Nil]
    /\ call = [p \in Procs |-> IdleCall]
    /\ callsLeft = 0
    /\ created = [a \in Accounts |-> Nil]
    /\ retIDs = [a \in Accounts |-> {}]
    /\ gen = [a \in Accounts |-> 0]
    /\ userIDs = [a \in Accounts |-> {}]

InitRewrite ==
    /\ MainIdle
    /\ ap = NoApply
    /\ OthersIdle
    /\ \E b \in RewriteBodies, n \in RewriteAccountIDs,
          u \in RewriteAccountUUIDs, c \in RewriteClientIDs :
          rw = [NoRewrite EXCEPT !.stage = "in", !.body = b, !.accountID = n,
                                 !.accountUUID = u, !.cachedClientID = c]

RewriteOnce ==
    /\ rw.stage = "in"
    /\ rw' = [rw EXCEPT !.stage = "once",
                        !.out1 = RewriteUserID(rw.body, rw.accountID,
                                               rw.accountUUID, rw.cachedClientID)]
    /\ UNCHANGED <<cache, call, callsLeft, created, retIDs, gen, userIDs, ap, ft, sim, cl, uu, tl, dl>>

RewriteAgain ==
    /\ rw.stage = "once"
    /\ rw.out1.err = "nil"
    /\ rw' = [rw EXCEPT !.stage = "twice",
                        !.out2 = RewriteUserID(rw.out1.body, rw.accountID,
                                               rw.accountUUID, rw.cachedClientID)]
    /\ UNCHANGED <<cache, call, callsLeft, created, retIDs, gen, userIDs, ap, ft, sim, cl, uu, tl, dl>>

NextRewrite == RewriteOnce \/ RewriteAgain

SpecRewrite == InitRewrite /\ [][NextRewrite]_vars

\* ------------------------------------------------------------------------
\* ApplyFingerprint on drawn arguments
\* ------------------------------------------------------------------------

InitApply ==
    /\ MainIdle
    /\ rw = NoRewrite
    /\ OthersIdle
    /\ \E h \in ApplyHeaders, f \in ApplyFingerprints :
          ap = [NoApply EXCEPT !.stage = "in", !.header = h, !.fp = f]

Apply ==
    /\ ap.stage = "in"
    /\ ap' = [ap EXCEPT !.stage = "applied",
                        !.out = ApplyFingerprint(ap.header, ap.fp)]
    /\ UNCHANGED <<cache, call, callsLeft, created, retIDs, gen, userIDs, rw, ft, sim, cl, uu, tl, dl>>

NextApply == Apply

SpecApply == InitApply /\ [][NextApply]_vars

\* ------------------------------------------------------------------------
\* Properties of GetOrCreateFingerprint
\* ------------------------------------------------------------------------

\* the (major, minor, patch) tuple of an agent in the claude-cli format
Version(ua) ==
    LET g == claudeCodeUARegex(ua)[1]
    IN  <<Atoi(g[1]), Atoi(g[2]), Atoi(g[3])>>

\* x is strictly greater than y: major first, then minor, then patch
TupleGreater(x, y) ==
    \E i \in 1..3 : x[i] > y[i] /\ \A j \in 1..(i - 1) : x[j] = y[j]

Genuine(ua) == isClaudeCodeUserAgent(ua)

\* C1: the agent stored for an account, when it changes from one value in the
\* claude-cli/<major>.<minor>.<patch> format to another, changes to a strictly
\* greater (major, minor, patch) tuple, under any interleaving of the calls
C1_CachedAgentNeverMovesBackward ==
    [][\A a \in Accounts :
          (/\ cache[a] # Nil /\ cache'[a] # Nil
           /\ cache'[a][1].UserAgent # cache[a][1].UserAgent
           /\ Genuine(cache[a][1].UserAgent)
           /\ Genuine(cache'[a][1].UserAgent))
          => TupleGreater(Version(cache'[a][1].UserAgent),
                          Version(cache[a][1].UserAgent))]_vars

\* C2: once an account has a record, the clientID in the cache and the
\* clientID of every fingerprint returned for the account are the clientID
\* generated at first creation
C2_ClientIDNeverChanges ==
    \A a \in Accounts :
        created[a] # Nil =>
            /\ cache[a] # Nil => cache[a][1].ClientID = created[a][1]
            /\ \A id \in retIDs[a] : id = created[a][1]

\* C3: in a sequential run without cache failures all calls for an account
\* return one clientID, and generateClientID runs only when the cache holds
\* no record for the account
C3_SequentialClientIDStable ==
    /\ [](\A a \in Accounts : Cardinality(retIDs[a]) <= 1)
    /\ [][\A a \in Accounts : gen'[a] # gen[a] => cache[a] = Nil]_vars

\* every call of the run has returned, after one creation and with agents
\* that upgraded the record on the way
C3_Witness ==
    \E a \in Accounts :
        /\ callsLeft = 0 /\ NoCallInFlight
        /\ gen[a] = 1
        /\ Cardinality(retIDs[a]) = 1
        /\ cache[a] # Nil
        /\ cache[a][1].UserAgent = "claude-cli/1.10.0 (external, cli)"

\* a call that was answered with a record in the claude-cli format and that
\* carries an agent in that format
GenuineHit(c) ==
    /\ c.got = "hit"
    /\ Genuine(c.ua)
    /\ Genuine(c.seen[1].UserAgent)

IncomingNewer(c) == TupleGreater(Version(c.ua), Version(c.seen[1].UserAgent))

\* C4: with a cached agent and an incoming agent both in the claude-cli
\* format, the call returns the incoming agent and writes it to the cache
\* when the incoming tuple is strictly greater than the cached one, and
\* otherwise returns the cached agent and issues no write
C4_UpgradeIffStrictlyNewer ==
    /\ [](\A p \in Procs :
            GenuineHit(call[p]) =>
              /\ call[p].pc = "set" => IncomingNewer(call[p])
              /\ call[p].pc = "returned" =>
                   /\ (call[p].wrote # "none") <=> IncomingNewer(call[p])
                   /\ call[p].result[1].fp # Nil
                   /\ call[p].result[1].fp[1].UserAgent =
                        IF IncomingNewer(call[p]) THEN call[p].ua
                        ELSE call[p].seen[1].UserAgent)
    /\ [][\A p \in Procs :
            (GenuineHit(call[p]) /\ call[p].pc = "set" /\ call'[p].wrote = "ok")
              => /\ cache'[call[p].acct] # Nil
                 /\ cache'[call[p].acct][1].UserAgent = call[p].ua
                 /\ cache'[call[p].acct][1].ClientID = call[p].seen[1].ClientID]_vars

\* 1.10.0 replaces 1.2.0: the minor numbers compare as numbers
C4_Witness ==
    \E p \in Procs :
        /\ call[p].pc = "returned" /\ call[p].got = "hit"
        /\ call[p].seen[1].UserAgent = "claude-cli/1.2.0"
        /\ call[p].ua = "claude-cli/1.10.0 (external, cli)"
        /\ call[p].wrote = "ok"
        /\ cache[call[p].acct] = call[p].result[1].fp

\* C5: whatever GetFingerprint and SetFingerprint answer, the call returns a
\* fingerprint and a nil error; after a miss and after a read error alike it
\* builds a new record with a generated clientID and attempts to write it;
\* the fingerprint returned is the one held before the write, whether the
\* write succeeded or failed
C5_CacheNeverFailsTheCall ==
    \A p \in Procs :
        /\ call[p].pc = "returned" =>
              /\ call[p].result # Nil
              /\ call[p].result[1].err = "nil"
              /\ call[p].result[1].fp # Nil
              /\ call[p].result[1].fp = call[p].fp
              /\ call[p].got \in {"miss", "error"} => call[p].wrote \in {"ok", "fail"}
        /\ (call[p].pc \in {"set", "returned"} /\ call[p].got \in {"miss", "error"}) =>
              \E id \in generateClientID :
                  call[p].fp = Some([defaultFingerprint EXCEPT
                      !.ClientID = id,
                      !.UserAgent = IF Genuine(call[p].ua) THEN call[p].ua
                                    ELSE "claude-cli/2.0.62 (external, cli)"])
        /\ call[p].pc = "get" => call[p].got = ""

\* a call whose read failed and whose write failed has returned
C5_Witness ==
    \E p \in Procs :
        /\ call[p].pc = "returned"
        /\ call[p].got = "error"
        /\ call[p].wrote = "fail"
        /\ cache[call[p].acct] # Nil

\* C8: all requests of one account that carry the same session part are
\* forwarded with one and the same rewritten user_id
C8_RewrittenUserIDStable ==
    \A a \in Accounts : Cardinality(userIDs[a]) <= 1

\* ------------------------------------------------------------------------
\* Properties of RewriteUserID
\* ------------------------------------------------------------------------

\* the member a JSON object text has under key k (Nil when it has none): the
\* last one when the key is repeated
Field(members, k) ==
    IF LastIndex(members, k) = 0 THEN Nil ELSE Some(members[LastIndex(members, k)])

\* s is user_{64 lowercase hex}_account__session_{36 of hex or hyphen}
IsClientUserID(s) ==
    \E n \in {Len(s) - 123} :
        /\ n = 0
        /\ s = "user_" \o SubSeq(s, 6, 69) \o "_account__session_" \o SubSeq(s, 88, 123)
        /\ \A i \in 6..69 : Char(s, i) \in HexLower
        /\ \A i \in 88..123 : Char(s, i) \in HexLower \cup {"-"}

\* the body carries a metadata.user_id string of the client form
HasClientUserID(body) ==
    /\ body.kind = "object"
    /\ Field(body.members, "metadata") # Nil
    /\ Field(body.members, "metadata")[1].t = "obj"
    /\ LET inner == Field(body.members, "metadata")[1].m
       IN  /\ Field(inner, "user_id") # Nil
           /\ Field(inner, "user_id")[1].t = "str"
           /\ IsClientUserID(Field(inner, "user_id")[1].s)

Rewrites(r) ==
    r.accountUUID # "" /\ r.cachedClientID # "" /\ HasClientUserID(r.body)

\* C6: RewriteUserID returns its input body and a nil error when the body is
\* empty, accountUUID or cachedClientID is empty, the body is no JSON object,
\* has no metadata object, has no non-empty string metadata.user_id, or the
\* user_id is not of the form user_{64 hex}_account__session_{36 hex or -}
C6_RewriteNoOp ==
    (rw.stage \in {"once", "twice"} /\ ~Rewrites(rw)) =>
        /\ rw.out1.body = rw.body
        /\ rw.out1.err = "nil"

\* a user_id that only differs from the client form by one trailing
\* character came back unchanged
C6_Witness ==
    /\ rw.stage = "once"
    /\ rw.accountUUID # "" /\ rw.cachedClientID # ""
    /\ rw.body.kind = "object"
    /\ Field(rw.body.members, "metadata") # Nil
    /\ Field(rw.body.members, "metadata")[1].m =
          <<Inner("user_id", "str", GoodUserID \o "0")>>
    /\ rw.out1.body = rw.body

\* C7: RewriteUserID applied to its own output with the same arguments
\* returns that output
C7_RewriteIdempotent ==
    rw.stage = "twice" => rw.out2 = rw.out1

\* a body was rewritten with a cachedClientID of 64 hex characters, and the
\* second application left the rewritten body alone
C7_Witness ==
    /\ rw.stage = "twice"
    /\ rw.out1.body # rw.body
    /\ rw.cachedClientID = Rep("a", 64)
    /\ rw.accountUUID = "account_"
    /\ rw.out2.body = rw.out1.body

\* a member of the output has the value of the member of the input
SameValue(x, y) ==
    /\ x.k = y.k
    /\ x.t = y.t
    /\ IF x.t = "num" THEN NumberValue(x.s) = NumberValue(y.s) ELSE x.s = y.s

SameFields(inM, outM, except) ==
    /\ \A i \in 1..Len(inM) :
          (inM[i].k # except /\ LastIndex(inM, inM[i].k) = i) =>
              /\ Field(outM, inM[i].k) # Nil
              /\ SameValue(inM[i], Field(outM, inM[i].k)[1])
    /\ \A j \in 1..Len(outM) : Field(inM, outM[j].k) # Nil

\* C9: when the body is rewritten, the output is a JSON object whose
\* metadata.user_id is user_{cachedClientID}_account_{accountUUID}_session_
\* {derivedUUID}; every other top-level field and every other metadata field
\* has the value it has in the input
C9_RewriteFrame ==
    (rw.stage \in {"once", "twice"} /\ Rewrites(rw)) =>
        LET inMeta == Field(rw.body.members, "metadata")[1].m
            tail == SubSeq(Field(inMeta, "user_id")[1].s, 88, 123)
            out == rw.out1.body
        IN  /\ rw.out1.err = "nil"
            /\ out.kind = "object"
            /\ Field(out.members, "metadata") # Nil
            /\ Field(out.members, "metadata")[1].t = "obj"
            /\ Field(Field(out.members, "metadata")[1].m, "user_id") =
                  Some(Inner("user_id", "str",
                      "user_" \o rw.cachedClientID \o "_account_" \o rw.accountUUID
                        \o "_session_"
                        \o generateUUIDFromSeed(Itoa(rw.accountID) \o "::" \o tail)))
            /\ SameFields(rw.body.members, out.members, "metadata")
            /\ SameFields(inMeta, Field(out.members, "metadata")[1].m, "user_id")

\* ------------------------------------------------------------------------
\* Properties of ApplyFingerprint
\* ------------------------------------------------------------------------

\* the header each fingerprint field is written to
FingerprintHeaders ==
    <<<<"User-Agent", "UserAgent">>,
      <<"X-Stainless-Lang", "StainlessLang">>,
      <<"X-Stainless-Package-Version", "StainlessPackageVersion">>,
      <<"X-Stainless-Os", "StainlessOS">>,
      <<"X-Stainless-Arch", "StainlessArch">>,
      <<"X-Stainless-Runtime", "StainlessRuntime">>,
      <<"X-Stainless-Runtime-Version", "StainlessRuntimeVersion">>>>

FixedHeaders ==
    <<<<"X-Stainless-Retry-Count", "0">>, <<"X-App", "cli">>,
      <<"Anthropic-Dangerous-Direct-Browser-Access", "true">>>>

\* C10: with a nil fingerprint the header is unchanged; otherwise the agent
\* header and each X-Stainless metadata header whose fingerprint field is
\* non-empty hold exactly the fingerprint's value, the retry count is "0",
\* X-App is "cli" and the direct browser access header is "true", and every
\* other header keeps its values
C10_ApplyFingerprintFrame ==
    ap.stage = "applied" =>
        IF ap.fp = Nil THEN ap.out = ap.header
        ELSE /\ \A i \in 1..Len(FingerprintHeaders) :
                   LET h == FingerprintHeaders[i][1]
                       v == ap.fp[1][FingerprintHeaders[i][2]]
                   IN  ap.out[h] = IF v # "" THEN <<v>> ELSE ap.header[h]
             /\ \A i \in 1..Len(FixedHeaders) :
                   ap.out[FixedHeaders[i][1]] = <<FixedHeaders[i][2]>>
             /\ \A h \in HeaderKeys :
                   (/\ \A i \in 1..Len(FingerprintHeaders) : FingerprintHeaders[i][1] # h
                    /\ \A i \in 1..Len(FixedHeaders) : FixedHeaders[i][1] # h)
                   => ap.out[h] = ap.header[h]
             /\ DOMAIN ap.out = HeaderKeys

\* a fingerprint with an empty OS field was applied to a header that had
\* several values everywhere
C10_Witness ==
    /\ ap.stage = "applied"
    /\ ap.fp # Nil
    /\ ap.fp[1].StainlessOS = ""
    /\ ap.fp[1].UserAgent # ""
    /\ ap.header["User-Agent"] = <<"old", "older">>
    /\ ap.out["User-Agent"] = <<ap.fp[1].UserAgent>>
    /\ ap.out["X-Stainless-Os"] = <<"old", "older">>

\* ------------------------------------------------------------------------
\* checkFatal400Error on drawn response bodies
\* ------------------------------------------------------------------------

\* strings.ToLower of the characters lo..hi of s
RECURSIVE LowerRange(_, _, _)
LowerRange(s, lo, hi) ==
    IF lo > hi THEN ""
    ELSE IF lo = hi THEN ToLower(Char(s, lo))
    ELSE LET mid == (lo + hi) \div 2
         IN  LowerRange(s, lo, mid) \o LowerRange(s, mid + 1, hi)

StringsToLower(s) == LowerRange(s, 1, Len(s))

\* the test's helpers: substr occurs in s at some offset 0..len(s)-len(substr)
findSubstring(s, substr) ==
    \E i \in 0..(Len(s) - Len(substr)) : SubSeq(s, i + 1, i + Len(substr)) = substr

contains(s, substr) ==
    /\ Len(s) >= Len(substr)
    /\ \/ s = substr
       \/ Len(substr) = 0
       \/ (Len(s) > 0 /\ Len(substr) > 0 /\ findSubstring(s, substr))

\* the fatal groups in the order they are tried, each with its label and its
\* phrases in lower case
fatal400Groups ==
    << [label |-> "Organization disabled (400)",
        phrases |-> {"organization has been disabled", "organization is disabled"}],
       [label |-> "Account disabled (400)",
        phrases |-> {"account has been disabled"}],
       [label |-> "API key disabled (400)",
        phrases |-> {"api key has been disabled"}],
       [label |-> "Workspace disabled (400)",
        phrases |-> {"workspace has been disabled"}] >>

RECURSIVE firstFatalGroup(_, _)
firstFatalGroup(lowered, g) ==
    IF g > Len(fatal400Groups) THEN ""
    ELSE IF \E ph \in fatal400Groups[g].phrases : findSubstring(lowered, ph)
    THEN fatal400Groups[g].label
    ELSE firstFatalGroup(lowered, g + 1)

checkFatal400ErrorCaseSensitive(responseBody) ==
    firstFatalGroup(responseBody, 1)

\* the label of the first group with a phrase in the lower-cased body, "" when
\* the body is empty or no group has one
checkFatal400Error(responseBody) ==
    IF Len(responseBody) = 0 THEN ""
    ELSE firstFatalGroup(StringsToLower(responseBody), 1)

ErrorBody(message) == "{\"error\":{\"message\":\"" \o message \o "\"}}"

TypedErrorBody(message) ==
    "{\"type\":\"error\",\"error\":{\"type\":\"invalid_request_error\",\"message\":\""
        \o message \o "\"}}"

\* the table of TestCheckFatal400Error
fatal400Tests ==
    { [responseBody |-> TypedErrorBody("This organization has been disabled."),
       wantFatal |-> TRUE, wantContains |-> "Organization disabled (400)"],
      [responseBody |-> ErrorBody("The organization is disabled"),
       wantFatal |-> TRUE, wantContains |-> "Organization disabled (400)"],
      [responseBody |-> ErrorBody("Your account has been disabled"),
       wantFatal |-> TRUE, wantContains |-> "Account disabled (400)"],
      [responseBody |-> ErrorBody("This API key has been disabled"),
       wantFatal |-> TRUE, wantContains |-> "API key disabled (400)"],
      [responseBody |-> ErrorBody("This workspace has been disabled"),
       wantFatal |-> TRUE, wantContains |-> "Workspace disabled (400)"],
      [responseBody |-> TypedErrorBody("max_tokens: must be greater than 0"),
       wantFatal |-> FALSE, wantContains |-> ""],
      [responseBody |-> ErrorBody("Missing required parameter: model"),
       wantFatal |-> FALSE, wantContains |-> ""],
      [responseBody |-> "", wantFatal |-> FALSE, wantContains |-> ""],
      [responseBody |-> ErrorBody("This ORGANIZATION HAS BEEN DISABLED"),
       wantFatal |-> TRUE, wantContains |-> "Organization disabled (400)"] }

\* the test's verdict on one row: TRUE when no t.Errorf is reached
fatal400TestPasses(tt, result) ==
    IF tt.wantFatal
    THEN result # "" /\ (tt.wantContains = "" \/ contains(result, tt.wantContains))
    ELSE result = ""

\* response bodies: the test's, and messages with one or two phrases, in mixed
\* case, as JSON and as plain text
Fatal400Messages ==
    {"organization has been disabled", "Organization Is Disabled",
     "account has been disabled", "API KEY has been disabled",
     "workspace has been disabled", "organization was disabled",
     "account disabled", "key has been disable"}

Fatal400Tails ==
    {"", ".", "; your Account has been disabled",
     " and this WORKSPACE HAS BEEN DISABLED, the organization is disabled too"}

Fatal400Bodies ==
    {tt.responseBody : tt \in fatal400Tests}
      \cup {ErrorBody("This " \o m \o t) : m \in Fatal400Messages, t \in Fatal400Tails}
      \cup {m \o t : m \in Fatal400Messages, t \in Fatal400Tails}

InitFatal ==
    /\ MainIdle
    /\ rw = NoRewrite
    /\ ap = NoApply
    /\ sim = NoSim
    /\ cl = NoClassify
    /\ uu = NoUUID
    /\ tl = NoTable
    /\ dl = NoDownload
    /\ \E b \in Fatal400Bodies : ft = [NoFatal EXCEPT !.stage = "in", !.body = b]

CheckFatal ==
    /\ ft.stage = "in"
    /\ ft' = [ft EXCEPT !.stage = "checked", !.label = checkFatal400Error(ft.body)]
    /\ UNCHANGED <<cache, call, callsLeft, created, retIDs, gen, userIDs, rw, ap,
                   sim, cl, uu, tl, dl>>

NextFatal == CheckFatal

SpecFatal == InitFatal /\ [][NextFatal]_vars

\* the body has, at some offset, the phrase in any mix of upper and lower case
HasPhrase(body, ph) ==
    \E i \in 0..(Len(body) - Len(ph)) :
        \A k \in 1..Len(ph) : ToLower(Char(body, i + k)) = Char(ph, k)

MatchingGroups(body) ==
    {g \in 1..Len(fatal400Groups) :
        \E ph \in fatal400Groups[g].phrases : HasPhrase(body, ph)}

MaxLen == 3

\* A score is the pair <<n, d>>, d > 0, standing for the float64 n/d: the
\* code divides two integers below 2^53 once, and two such quotients with
\* d <= 2^26 are the same float64 exactly when they are the same fraction.
One == <<1, 1>>

Zero == <<0, 1>>

FracEq(x, y) == x[1] * y[2] = y[1] * x[2]

FracLess(x, y) == x[1] * y[2] < y[1] * x[2]

\* the map built by the loop bigrams[s[i:i+2]]++
bigramsOf(s) ==
    [bg \in {SubSeq(s, i, i + 1) : i \in 1..(Len(s) - 1)} |->
        Cardinality({i \in 1..(Len(s) - 1) : SubSeq(s, i, i + 1) = bg})]

intersectionCount1(bigrams1, bigrams2) ==
    Cardinality(UNION {{<<bg, k>> : k \in 1..bigrams1[bg]} :
                           bg \in DOMAIN bigrams1 \cap DOMAIN bigrams2})

\* the loop over bigrams1: every bigram also in bigrams2 adds the smaller count
intersection(bigrams1, bigrams2) ==
    Cardinality(UNION {{<<bg, k>> :
                           k \in 1..(IF bigrams1[bg] < bigrams2[bg]
                                     THEN bigrams1[bg] ELSE bigrams2[bg])} :
                           bg \in DOMAIN bigrams1 \cap DOMAIN bigrams2})

stringSimilarityLengthFirst(s1, s2) ==
    IF Len(s1) < 2 \/ Len(s2) < 2 THEN Zero
    ELSE IF s1 = s2 THEN One
    ELSE <<2 * intersection(bigramsOf(s1), bigramsOf(s2)),
           Len(s1) - 1 + Len(s2) - 1>>

stringSimilarity(s1, s2) ==
    IF s1 = s2 THEN One
    ELSE IF Len(s1) < 2 \/ Len(s2) < 2 THEN Zero
    ELSE <<2 * intersection(bigramsOf(s1), bigramsOf(s2)),
           Len(s1) - 1 + Len(s2) - 1>>

SimAlphabet == {"a", "b"}

RECURSIVE StringsOfLen(_)
StringsOfLen(n) ==
    IF n = 0 THEN {""}
    ELSE {w \o c : w \in StringsOfLen(n - 1), c \in SimAlphabet}

SimStrings == UNION {StringsOfLen(n) : n \in 0..MaxLen}

InitSim ==
    /\ MainIdle
    /\ rw = NoRewrite
    /\ ap = NoApply
    /\ ft = NoFatal
    /\ cl = NoClassify
    /\ uu = NoUUID
    /\ tl = NoTable
    /\ dl = NoDownload
    /\ \E a \in SimStrings, b \in SimStrings :
          sim = [NoSim EXCEPT !.stage = "in", !.s1 = a, !.s2 = b]

\* the function called on the pair and on the swapped pair
Compare ==
    /\ sim.stage = "in"
    /\ sim' = [sim EXCEPT !.stage = "compared",
                          !.fwd = stringSimilarity(sim.s1, sim.s2),
                          !.bwd = stringSimilarity(sim.s2, sim.s1)]
    /\ UNCHANGED <<cache, call, callsLeft, created, retIDs, gen, userIDs, rw, ap,
                   ft, cl, uu, tl, dl>>

NextSim == Compare

SpecSim == InitSim /\ [][NextSim]_vars

ShortArgument == Len(sim.s1) < 2 \/ Len(sim.s2) < 2

\* C12 as stated: the score is exactly 0.0 whenever an argument is shorter
\* than 2, the pairs of one short string with itself included.
C12_ShortArgumentScoresZero ==
    (sim.stage = "compared" /\ ShortArgument) => FracEq(sim.fwd, Zero)

\* C12, amended: with an argument shorter than 2 the score is exactly 0.0 when
\* the two arguments differ and exactly 1.0 when they are the same string.
C12_ShortArgumentScoresZeroUnlessEqual ==
    (sim.stage = "compared" /\ ShortArgument) =>
        IF sim.s1 = sim.s2 THEN FracEq(sim.fwd, One) ELSE FracEq(sim.fwd, Zero)

\* one single character compared with itself scores 1.0
C12_Witness ==
    /\ sim.stage = "compared"
    /\ sim.s1 = "a"
    /\ sim.s2 = "a"
    /\ sim.fwd = One

\* C13: stringSimilarity gives the same score for a pair and for the swapped
\* pair, with repeated bigrams and with arguments shorter than 2.
C13_SimilaritySymmetric ==
    sim.stage = "compared" => FracEq(sim.fwd, sim.bwd)

\* "aaa" has the bigram "aa" twice, "aab" once: the score is 2*1/4 either way
C13_Witness ==
    /\ sim.stage = "compared"
    /\ sim.s1 = "aaa"
    /\ sim.s2 = "aab"
    /\ sim.fwd = <<2, 4>>
    /\ sim.bwd = <<2, 4>>

\* ------------------------------------------------------------------------
\* IsRealClaudeCodeRequest on drawn system fields
\* ------------------------------------------------------------------------

\* longest system array drawn
MaxItems == 2

systemPromptTemplates ==
    << "You are Claude Code, Anthropic's official CLI for Claude.",
       "You are a Claude agent, built on Anthropic's Claude Agent SDK.",
       "You are Claude Code, Anthropic's official CLI for Claude, running within the Claude Agent SDK.",
       "You are an interactive CLI tool that helps users",
       "You are a file search specialist for Claude Code, Anthropic's official CLI for Claude.",
       "You are an agent for Claude Code, Anthropic's official CLI for Claude." >>

\* 0.5
DefaultSystemPromptThreshold == <<1, 2>>

\* unicode.IsSpace on the characters of the model
IsSpace(c) == c \in {" ", "\t", "\n", "\r"}

\* what the loop of normalizeText writes for the characters lo..hi: lastSpace
\* is true at the start and after a space, so a space is written only after a
\* character that is none
RECURSIVE normalizeRange(_, _, _)
normalizeRange(s, lo, hi) ==
    IF lo > hi THEN ""
    ELSE IF lo = hi
    THEN IF IsSpace(Char(s, lo))
         THEN IF lo > 1 /\ ~IsSpace(Char(s, lo - 1)) THEN " " ELSE ""
         ELSE ToLower(Char(s, lo))
    ELSE LET mid == (lo + hi) \div 2
         IN  normalizeRange(s, lo, mid) \o normalizeRange(s, mid + 1, hi)

RECURSIVE TrimSpace(_)
TrimSpace(s) ==
    IF s = "" THEN s
    ELSE IF IsSpace(Char(s, 1)) THEN TrimSpace(Tail(s))
    ELSE IF IsSpace(Char(s, Len(s))) THEN TrimSpace(SubSeq(s, 1, Len(s) - 1))
    ELSE s

normalizeText(s) == TrimSpace(normalizeRange(s, 1, Len(s)))

\* normalizeText(template), template by template
normalizedTemplates ==
    [i \in 1..Len(systemPromptTemplates) |-> normalizeText(systemPromptTemplates[i])]

\* the loop of BestSimilarityByTemplates from template i on
RECURSIVE bestFrom(_, _, _)
bestFrom(normalizedText, i, best) ==
    IF i > Len(systemPromptTemplates) THEN best
    ELSE LET score == stringSimilarity(normalizedText, normalizedTemplates[i])
         IN  bestFrom(normalizedText, i + 1,
                      IF FracLess(best.bestScore, score)
                      THEN [bestScore |-> score,
                            matchedTemplate |-> systemPromptTemplates[i]]
                      ELSE best)

BestSimilarityByTemplates(text) ==
    bestFrom(normalizeText(text), 1, [bestScore |-> Zero, matchedTemplate |-> ""])

\* the texts a drawn system field carries
ClassifyTexts ==
    {"You are Claude Code, Anthropic's official CLI for Claude.",
     "  YOU are\tClaude Code,\n Anthropic's  official CLI for Claude. ",
     "You are Claude Code, a CLI for Claude.",
     "Please help me write a poem",
     ""}

\* BestSimilarityByTemplates of each of these texts
bestSimilarities == {<<t, BestSimilarityByTemplates(t)>> : t \in ClassifyTexts}

bestScore(text) == (CHOOSE e \in bestSimilarities : e[1] = text)[2].bestScore

\* score >= threshold
AtLeast(score, threshold) == ~FracLess(score, threshold)

\* A decoded JSON value: t is its Go type ("nil", "string", "float64", "map",
\* "array"); s the string; items the elements of an array; for a map, k is
\* the type of its "text" entry ("absent" when it has none) and s that text.
Value(t, k, str, items) == [t |-> t, k |-> k, s |-> str, items |-> items]

EffectiveThreshold(threshold) ==
    IF threshold[1] <= 0 THEN DefaultSystemPromptThreshold ELSE threshold

scanFirstItemOnly(arr, i, threshold) ==
    IF i > Len(arr) THEN FALSE
    ELSE arr[i].t = "map" /\ arr[i].k = "string"
           /\ AtLeast(bestScore(arr[i].s), threshold)

\* the loop over the array from item i on
RECURSIVE scan(_, _, _)
scan(arr, i, threshold) ==
    IF i > Len(arr) THEN FALSE
    ELSE IF arr[i].t = "map" /\ arr[i].k = "string"
              /\ AtLeast(bestScore(arr[i].s), threshold)
    THEN TRUE
    ELSE scan(arr, i + 1, threshold)

IsRealClaudeCodeRequest(system, threshold) ==
    LET th == EffectiveThreshold(threshold)
    IN  IF system.t = "nil" THEN FALSE
        ELSE IF system.t = "string" THEN AtLeast(bestScore(system.s), th)
        ELSE IF system.t = "array" THEN scan(system.items, 1, th)
        ELSE FALSE

ClassifyItems ==
    {Value("map", "string", t, <<>>) : t \in ClassifyTexts}
      \cup {Value("map", "absent", "", <<>>), Value("map", "float64", "", <<>>),
            Value("string", "", "You are Claude Code, Anthropic's official CLI for Claude.", <<>>),
            Value("nil", "", "", <<>>)}

RECURSIVE ArraysOfLen(_)
ArraysOfLen(n) ==
    IF n = 0 THEN {<<>>}
    ELSE {Append(a, e) : a \in ArraysOfLen(n - 1), e \in ClassifyItems}

ClassifySystems ==
    {Value("nil", "", "", <<>>), Value("float64", "", "", <<>>),
     Value("map", "string", "You are Claude Code, Anthropic's official CLI for Claude.", <<>>)}
      \cup {Value("string", "", t, <<>>) : t \in ClassifyTexts}
      \cup {Value("array", "", "", a) : a \in UNION {ArraysOfLen(n) : n \in 0..MaxItems}}

\* 0.5, 0 and -1 (both replaced by the default), 0.2, 0.75 and 1
ClassifyThresholds == {<<1, 2>>, <<0, 1>>, <<-1, 1>>, <<1, 5>>, <<3, 4>>, <<1, 1>>}

InitClassify ==
    /\ MainIdle
    /\ rw = NoRewrite
    /\ ap = NoApply
    /\ ft = NoFatal
    /\ sim = NoSim
    /\ uu = NoUUID
    /\ tl = NoTable
    /\ dl = NoDownload
    /\ \E sys \in ClassifySystems, th \in ClassifyThresholds :
          cl = [NoClassify EXCEPT !.stage = "in", !.system = sys, !.threshold = th]

Classify ==
    /\ cl.stage = "in"
    /\ cl' = [cl EXCEPT !.stage = "classified",
                        !.result = IsRealClaudeCodeRequest(cl.system, cl.threshold)]
    /\ UNCHANGED <<cache, call, callsLeft, created, retIDs, gen, userIDs, rw, ap,
                   ft, sim, uu, tl, dl>>

NextClassify == Classify

SpecClassify == InitClassify /\ [][NextClassify]_vars

\* item i of the system array is an object whose text is a string that scores
\* at least the threshold in effect
ItemPasses(i) ==
    /\ cl.system.items[i].t = "map"
    /\ cl.system.items[i].k = "string"
    /\ AtLeast(BestSimilarityByTemplates(cl.system.items[i].s).bestScore,
               EffectiveThreshold(cl.threshold))

CorruptedFingerprints == {legacyFingerprint, strayFingerprint}

OtherClientUAs == {ua \in ClientUAs \cup {""} : ~isClaudeCodeUserAgent(ua)}

\* every account has a corrupted record in the store
InitRepair ==
    /\ cache \in [Accounts -> {Some(f) : f \in CorruptedFingerprints}]
    /\ call = [p \in Procs |-> IdleCall]
    /\ callsLeft = MaxCalls
    /\ created = [a \in Accounts |-> Some(cache[a][1].ClientID)]
    /\ retIDs = [a \in Accounts |-> {}]
    /\ gen = [a \in Accounts |-> 0]
    /\ userIDs = [a \in Accounts |-> {}]
    /\ rw = NoRewrite
    /\ ap = NoApply
    /\ OthersIdle

\* concurrent calls of clients that are not Claude Code; the cache answers
NextRepair ==
    \/ \E p \in Procs, a \in Accounts, ua \in OtherClientUAs : Begin(p, a, ua)
    \/ \E p \in Procs : ReadHit(p)
    \/ \E p \in Procs : WriteOK(p)
    \/ \E p \in Procs : ForwardRequest(p)

SpecRepair == InitRepair /\ [][NextRepair]_vars

\* the record the store held for the account at start-up
Original(a) == CHOOSE f \in CorruptedFingerprints : f.ClientID = created[a][1]

\* that record with the fallback agent and nothing else changed
Repaired(a) == [Original(a) EXCEPT !.UserAgent = "claude-cli/2.0.62 (external, cli)"]

C16_ReturnedAgentIsGenuine ==
    \A p \in Procs :
        (call[p].pc = "returned" /\ call[p].result[1].fp # Nil) =>
            isClaudeCodeUserAgent(call[p].result[1].fp[1].UserAgent)

\* ------------------------------------------------------------------------
\* The UUID formatting of generateUUIDFromSeed on drawn hash prefixes
\* ------------------------------------------------------------------------

\* values drawn for bytes[6] and bytes[8], the two bytes the code masks: both
\* ends of the range, values below 16, and every pair of top bits
MaskedByteSamples == {0, 1, 9, 15, 16, 63, 64, 79, 127, 128, 171, 192, 255}

\* what the other fourteen bytes are filled with
FillPatterns ==
    {[i \in 1..16 |-> 0], [i \in 1..16 |-> 255], [i \in 1..16 |-> 10],
     [i \in 1..16 |-> (37 * i + 11) % 256]}

HashPrefixes ==
    {[i \in 1..16 |-> IF i = 7 THEN b7 ELSE IF i = 9 THEN b9 ELSE fill[i]] :
        b7 \in MaskedByteSamples, b9 \in MaskedByteSamples, fill \in FillPatterns}

InitUUID ==
    /\ MainIdle
    /\ rw = NoRewrite
    /\ ap = NoApply
    /\ ft = NoFatal
    /\ sim = NoSim
    /\ cl = NoClassify
    /\ tl = NoTable
    /\ dl = NoDownload
    /\ \E h \in HashPrefixes : uu = [NoUUID EXCEPT !.stage = "in", !.bytes = h]

\* lines 226-230 on the drawn prefix, and the user_id RewriteUserID builds
\* with the result
FormatUUID ==
    /\ uu.stage = "in"
    /\ LET newSessionHash == uuidFromBytes(uu.bytes)
       IN  uu' = [uu EXCEPT !.stage = "formatted",
                            !.out = newSessionHash,
                            !.userID = newUserID(Rep("a", 64), "0b5c7f0e-acc",
                                                 newSessionHash)]
    /\ UNCHANGED <<cache, call, callsLeft, created, retIDs, gen, userIDs, rw, ap,
                   ft, sim, cl, tl, dl>>

NextUUID == FormatUUID

SpecUUID == InitUUID /\ [][NextUUID]_vars

\* value of a hex digit (-1 for any other character)
HexVal(c) == IndexIn(HexDigits, c) - 1

\* where the two digits of byte i (1..16) start in an 8-4-4-4-12 string
DigitsOfByte(i) ==
    2 * i - 1 + (IF i > 10 THEN 4 ELSE IF i > 8 THEN 3
                 ELSE IF i > 6 THEN 2 ELSE IF i > 4 THEN 1 ELSE 0)

ByteRead(str, i) ==
    16 * HexVal(Char(str, DigitsOfByte(i))) + HexVal(Char(str, DigitsOfByte(i) + 1))

\* C17: the string formatted from a 16-byte hash prefix has 36 characters,
\* hyphens after 8, 12, 16 and 20 lowercase hex digits, 4 as first digit of
\* the third group and 8, 9, a or b as first digit of the fourth, and reads
\* back as the prefix in every other bit; the user_id built with it ends in
\* it, and the session part of the input pattern accepts it.
C17_UUIDFormat ==
    uu.stage = "formatted" =>
        /\ Len(uu.out) = 36
        /\ \A j \in 1..36 :
              IF j \in {9, 14, 19, 24} THEN Char(uu.out, j) = "-"
              ELSE HexVal(Char(uu.out, j)) \in 0..15
        /\ Char(uu.out, 15) = "4"
        /\ Char(uu.out, 20) \in {"8", "9", "a", "b"}
        /\ \A i \in (1..16) \ {7, 9} : ByteRead(uu.out, i) = uu.bytes[i]
        /\ ByteRead(uu.out, 7) % 16 = uu.bytes[7] % 16
        /\ ByteRead(uu.out, 9) % 64 = uu.bytes[9] % 64
        /\ SubSeq(uu.userID, Len(uu.userID) - 35, Len(uu.userID)) = uu.out
        /\ userIDRegex(UserID(Rep("d", 64), uu.out)) = Some(uu.out)

\* a prefix of bytes 0xff: both masked bytes lose their top bits
C17_Witness ==
    /\ uu.stage = "formatted"
    /\ uu.bytes = [i \in 1..16 |-> 255]
    /\ uu.out = "ffffffff-ffff-4fff-bfff-ffffffffffff"

\* ------------------------------------------------------------------------
\* useTableLoader: loads, their controllers and their completions
\* ------------------------------------------------------------------------

\* calls of load in one run
MaxLoads == 3

TablePages == {1, 2}

TablePageSizes == {50}

\* what fetchFn may resolve with for a request: the rows of the requested
\* page with the totals, or an object without these fields
FetchResponses(req) ==
    {[items |-> Some(<<[page |-> req.page, page_size |-> req.page_size]>>),
      total |-> Some(120),
      pages |-> Some((120 + req.page_size - 1) \div req.page_size)],
     [items |-> Nil, total |-> Nil, pages |-> Nil]}

startLoadNoAbort(t, silent) ==
    [t EXCEPT !.loads = Append(t.loads,
                               [silent |-> silent, aborted |-> FALSE,
                                state |-> "pending", page |-> t.page,
                                page_size |-> t.page_size]),
              !.abortController = Len(t.loads) + 1,
              !.refreshing = IF silent THEN TRUE ELSE @,
              !.loading = IF silent THEN @ ELSE TRUE]

\* load up to its await (lines 45-62): the previous controller is aborted, a
\* new one is made, the flag is set and fetchFn is called with the current
\* page, page size and the new signal
startLoad(t, silent) ==
    LET aborted == IF t.abortController # 0
                   THEN [t.loads EXCEPT ![t.abortController].aborted = TRUE]
                   ELSE t.loads
    IN  [t EXCEPT !.loads = Append(aborted,
                                   [silent |-> silent, aborted |-> FALSE,
                                    state |-> "pending", page |-> t.page,
                                    page_size |-> t.page_size]),
                  !.abortController = Len(t.loads) + 1,
                  !.refreshing = IF silent THEN TRUE ELSE @,
                  !.loading = IF silent THEN @ ELSE TRUE]

\* the finally block of load i (lines 72-79), which ends the call
finally(t, i, state) ==
    [t EXCEPT !.loads[i].state = state,
              !.refreshing = IF t.loads[i].silent THEN FALSE ELSE @,
              !.loading = IF t.loads[i].silent THEN @ ELSE FALSE]

\* lines 64-66 of load i after its await: response.items || [],
\* response.total || 0, response.pages || 0
assign(t, i, response) ==
    [t EXCEPT !.items = IF response.items = Nil THEN <<>> ELSE response.items[1],
              !.total = IF response.total = Nil THEN 0 ELSE response.total[1],
              !.pages = IF response.pages = Nil THEN 0 ELSE response.pages[1]]

TableUnchanged ==
    UNCHANGED <<cache, call, callsLeft, created, retIDs, gen, userIDs, rw, ap,
                ft, sim, cl, uu, dl>>

CanLoad == Len(tl.loads) < MaxLoads

\* load() and silentLoad()
Load(silent) ==
    /\ ~tl.unmounted
    /\ CanLoad
    /\ tl' = startLoad(tl, silent)
    /\ TableUnchanged

\* reload(), also when debouncedReload fires, which a timer does even after
\* the component is gone
Reload ==
    /\ CanLoad
    /\ tl' = startLoad([tl EXCEPT !.page = 1], FALSE)
    /\ TableUnchanged

HandlePageChange(page) ==
    /\ ~tl.unmounted
    /\ CanLoad
    /\ tl' = startLoad([tl EXCEPT !.page = page], FALSE)
    /\ TableUnchanged

HandlePageSizeChange(size) ==
    /\ ~tl.unmounted
    /\ CanLoad
    /\ tl' = startLoad([tl EXCEPT !.page_size = size, !.page = 1], FALSE)
    /\ TableUnchanged

\* onUnmounted: abortController?.abort()
Unmount ==
    /\ ~tl.unmounted
    /\ tl' = [tl EXCEPT !.unmounted = TRUE,
                        !.loads = IF tl.abortController # 0
                                  THEN [@ EXCEPT ![tl.abortController].aborted = TRUE]
                                  ELSE @]
    /\ TableUnchanged

\* the promise of load i is fulfilled; fetchFn need not look at the signal,
\* so this can happen to a load whose signal is aborted
Resolve(i) ==
    /\ tl.loads[i].state = "pending"
    /\ \E response \in FetchResponses(tl.loads[i]) :
          tl' = finally(assign(tl, i, response), i, "resolved")
    /\ TableUnchanged

\* the promise of load i is rejected with an AbortError after its abort
RejectAborted(i) ==
    /\ tl.loads[i].state = "pending"
    /\ tl.loads[i].aborted
    /\ tl' = finally(tl, i, "aborted")
    /\ TableUnchanged

\* the promise of load i is rejected with another error, which load rethrows
RejectFailed(i) ==
    /\ tl.loads[i].state = "pending"
    /\ tl' = finally(tl, i, "failed")
    /\ TableUnchanged

InitTable ==
    /\ MainIdle
    /\ rw = NoRewrite
    /\ ap = NoApply
    /\ OthersIdle

NextTable ==
    \/ \E silent \in BOOLEAN : Load(silent)
    \/ Reload
    \/ \E page \in TablePages : HandlePageChange(page)
    \/ \E size \in TablePageSizes : HandlePageSizeChange(size)
    \/ Unmount
    \/ \E i \in 1..Len(tl.loads) : Resolve(i)
    \/ \E i \in 1..Len(tl.loads) : RejectAborted(i)
    \/ \E i \in 1..Len(tl.loads) : RejectFailed(i)

SpecTable == InitTable /\ [][NextTable]_vars

Unaborted == {i \in 1..Len(tl.loads) : ~tl.loads[i].aborted}

\* C18: every load but the last started has an aborted signal, so at most one
\* signal is un-aborted, and the step that unmounts leaves none.
C18_OnlyLatestSignalLive ==
    /\ [](/\ \A i \in 1..(Len(tl.loads) - 1) : tl.loads[i].aborted
          /\ Cardinality(Unaborted) <= 1)
    /\ [][(~tl.unmounted /\ tl'.unmounted) =>
              \A i \in 1..Len(tl'.loads) : tl'.loads[i].aborted]_vars

\* three loads started, the first two aborted while their requests are still
\* pending, and the component unmounted with the third aborted as well
C18_Witness ==
    /\ Len(tl.loads) = 3
    /\ \A i \in 1..3 : tl.loads[i].state = "pending" /\ tl.loads[i].aborted
    /\ tl.unmounted

Live(i) == tl.loads[i].state = "pending" /\ ~tl.loads[i].aborted

\* C19 as stated: loading is true while a non-silent load is pending with an
\* un-aborted signal, refreshing while a silent one is.
C19_FlagSetWhileLoadLive ==
    \A i \in 1..Len(tl.loads) :
        Live(i) => IF tl.loads[i].silent THEN tl.refreshing ELSE tl.loading

\* C20 as stated: only the most recently started load assigns items,
\* pagination.total and pagination.pages.
C20_OnlyLatestLoadAssigns ==
    [][\A i \in 1..Len(tl.loads) :
           (tl.loads[i].state = "pending" /\ tl'.loads[i].state = "resolved") =>
               i = Len(tl.loads)]_vars

\* ------------------------------------------------------------------------
\* DownloadFile: one call, step by step against the network and the disk
\* ------------------------------------------------------------------------

\* largest maxSize drawn; far below the int64 range, so maxSize + 1 is exact
MaxSize == 2

\* resp.StatusCode: 200 and one other
StatusCodes == {200, 404}

\* resp.ContentLength: -1 when the length is not declared
ContentLengths == (-1)..(MaxSize + 2)

\* bytes the body has to deliver, whatever was declared
BodyLengths == 0..(MaxSize + 3)

DownloadUnchanged ==
    UNCHANGED <<cache, call, callsLeft, created, retIDs, gen, userIDs, rw, ap,
                ft, sim, cl, uu, tl>>

\* return of DownloadFile with the given result
returnWith(d, ret) == [d EXCEPT !.pc = "done", !.ret = ret]

\* lines 128-133 once io.Copy returned without error
afterCopy(d) ==
    IF d.written > d.maxSize THEN [d EXCEPT !.pc = "remove"]
    ELSE returnWith(d, "nil")

InitDownload ==
    /\ MainIdle
    /\ rw = NoRewrite
    /\ ap = NoApply
    /\ ft = NoFatal
    /\ sim = NoSim
    /\ cl = NoClassify
    /\ uu = NoUUID
    /\ tl = NoTable
    /\ \E m \in 0..MaxSize : dl = [NoDownload EXCEPT !.pc = "do", !.maxSize = m]

\* lines 93-102: the request cannot be built or sent
DoFails ==
    /\ dl.pc = "do"
    /\ dl' = returnWith(dl, "err")
    /\ DownloadUnchanged

\* lines 99-112: a response arrives; any status but 200 and a declared length
\* above maxSize end the call before dest is touched
DoResponds(status, length, body) ==
    /\ dl.pc = "do"
    /\ LET d == [dl EXCEPT !.ContentLength = length, !.body = body]
       IN  dl' = IF status # 200 THEN returnWith(d, "err")
                 ELSE IF length > dl.maxSize THEN returnWith(d, "err")
                 ELSE [d EXCEPT !.pc = "create"]
    /\ DownloadUnchanged

\* lines 114-121: os.Create makes an empty dest, the reader is limited
CreateOK ==
    /\ dl.pc = "create"
    /\ dl' = [dl EXCEPT !.pc = "copy", !.dest = Some(0), !.created = TRUE,
                        !.N = dl.maxSize + 1]
    /\ DownloadUnchanged

CreateFails ==
    /\ dl.pc = "create"
    /\ dl' = returnWith(dl, "err")
    /\ DownloadUnchanged

\* io.Copy asks the LimitedReader with N <= 0: it answers EOF without
\* reading the body, and io.Copy returns without error
ReadAtLimit ==
    /\ dl.pc = "copy"
    /\ dl.N <= 0
    /\ dl' = afterCopy(dl)
    /\ DownloadUnchanged

\* one round of io.Copy: the body gives n bytes, at most N, with er "nil",
\* "EOF" or "fail" (a Reader may give bytes together with an error), and the
\* n bytes are written to dest before er is looked at
ReadAndWrite(n, er) ==
    /\ dl.pc = "copy"
    /\ dl.N > 0
    /\ n <= dl.N
    /\ n <= dl.body
    /\ er = "EOF" => n = dl.body
    /\ er = "nil" => n > 0
    /\ LET d == [dl EXCEPT !.body = @ - n, !.N = @ - n, !.written = @ + n,
                           !.dest = Some(dl.dest[1] + n)]
       IN  dl' = IF er = "fail" THEN returnWith(d, "err")
                 ELSE IF er = "EOF" THEN afterCopy(d)
                 ELSE d
    /\ DownloadUnchanged

\* one round of io.Copy in which the write to dest fails after nw < n bytes
ReadAndWriteFails(n, nw) ==
    /\ dl.pc = "copy"
    /\ dl.N > 0
    /\ n > 0
    /\ n <= dl.N
    /\ n <= dl.body
    /\ nw < n
    /\ dl' = returnWith([dl EXCEPT !.body = @ - n, !.N = @ - n,
                                   !.written = @ + nw,
                                   !.dest = Some(dl.dest[1] + nw)], "err")
    /\ DownloadUnchanged

\* lines 129-130: os.Remove deletes dest
RemoveOK ==
    /\ dl.pc = "remove"
    /\ dl' = returnWith([dl EXCEPT !.dest = Nil], "err")
    /\ DownloadUnchanged

\* lines 129-130: os.Remove fails (dest is still open, line 118 closes it at
\* return) and its error is dropped
RemoveFails ==
    /\ dl.pc = "remove"
    /\ dl' = returnWith(dl, "err")
    /\ DownloadUnchanged

NextDownload ==
    \/ DoFails
    \/ \E status \in StatusCodes, length \in ContentLengths, body \in BodyLengths :
          DoResponds(status, length, body)
    \/ CreateOK
    \/ CreateFails
    \/ ReadAtLimit
    \/ \E n \in 0..(MaxSize + 1), er \in {"nil", "EOF", "fail"} : ReadAndWrite(n, er)
    \/ \E n \in 1..(MaxSize + 1), nw \in 0..MaxSize : ReadAndWriteFails(n, nw)
    \/ RemoveOK
    \/ RemoveFails

SpecDownload == InitDownload /\ [][NextDownload]_vars

====
